---------------------------- MODULE Spec2Model ----------------------------
(***************************************************************************)
(* Model of src/dynamics/mpas/assets/generate_namelist_definition.py: the  *)
(* translation of an MPAS registry into a CAM-SIMA namelist definition.    *)
(*                                                                         *)
(* A Python str is modelled as a sequence of one-character strings, so     *)
(* that startswith, find, strip, lower and the ordering used by sorted()   *)
(* are computed character by character.                                    *)
(***************************************************************************)
EXTENDS Integers, Sequences, FiniteSets

VARIABLES
    pc,                     \* position of the __main__ block / translate loop
    reg_xml,                \* the registry document named by arg.reg_xml
    reg_xml_element_tree,   \* result of parse_xml, a sequence of nml_record
    gi,                     \* index of the nml_record the outer loop is at
    oi,                     \* index of the nml_option the inner loop is at
    entry_id_pg,            \* children of the root element being built
    nml_xml_element_tree,   \* what translate_element_tree returned
    err,                    \* the exception that ended the run, if any
    nml_xml,                \* the output file named by arg.nml_xml
    stdout,                 \* messages printed so far
    arg,                    \* argument of the pure function under study
    ret,                    \* its latest result
    first,                  \* its result on the first application
    ncalls                  \* number of applications so far

vars == <<pc, reg_xml, reg_xml_element_tree, gi, oi, entry_id_pg,
          nml_xml_element_tree, err, nml_xml, stdout, arg, ret, first, ncalls>>

mainVars == <<pc, reg_xml, reg_xml_element_tree, gi, oi, entry_id_pg,
              nml_xml_element_tree, err, nml_xml, stdout>>

fnVars == <<arg, ret, first, ncalls>>

None == "None"

(***************************************************************************)
(* Bounds of the model.                                                    *)
(***************************************************************************)
\* nml_record elements in a registry
MaxGroups == 2
\* nml_option elements in one nml_record
MaxOptions == 2
\* nml_option elements in a whole registry
MaxTotal == 2
\* pieces a name given to transform_name is assembled from
MaxChunks == 3
\* length of a default value given to the real-literal repair
MaxLen == 5

(***************************************************************************)
(* Characters and the str methods the script uses.                         *)
(***************************************************************************)
UPPER == <<"A","B","C","D","E","F","G","H","I","J","K","L","M",
           "N","O","P","Q","R","S","T","U","V","W","X","Y","Z">>

LOWER == <<"a","b","c","d","e","f","g","h","i","j","k","l","m",
           "n","o","p","q","r","s","t","u","v","w","x","y","z">>

DIGITS == <<"0","1","2","3","4","5","6","7","8","9">>

\* The characters of the model in code point order.
ASCII == <<"\t", "\n", " ", "*", "+", "-", ".">> \o DIGITS \o UPPER
            \o <<"_">> \o LOWER

Range(s) == {s[i] : i \in DOMAIN s}

\* ord(c), up to an order-preserving renumbering
Ord(c) == CHOOSE i \in DOMAIN ASCII : ASCII[i] = c

\* str.isspace for one character
IsSpace(c) == c \in {" ", "\t", "\n"}

LowerChar(c) ==
    IF c \in Range(UPPER) THEN LOWER[CHOOSE i \in DOMAIN UPPER : UPPER[i] = c]
    ELSE c

UpperChar(c) ==
    IF c \in Range(LOWER) THEN UPPER[CHOOSE i \in DOMAIN LOWER : LOWER[i] = c]
    ELSE c

\* s[n:]
Drop(s, n) == SubSeq(s, n + 1, Len(s))

\* str.lower
Lower(s) == [i \in 1..Len(s) |-> LowerChar(s[i])]

\* str.startswith
StartsWith(s, p) == Len(s) >= Len(p) /\ SubSeq(s, 1, Len(p)) = p

\* str.endswith
EndsWith(s, p) == Len(s) >= Len(p) /\ SubSeq(s, Len(s) - Len(p) + 1, Len(s)) = p

\* str.find: the lowest (0-based) index where p occurs in s, or -1
Find(s, p) ==
    LET hits == {i \in 0..(Len(s) - Len(p)) : SubSeq(s, i + 1, i + Len(p)) = p}
    IN  IF hits = {} THEN -1
        ELSE CHOOSE i \in hits : \A j \in hits : i <= j

\* str.strip(): leading and trailing whitespace removed
Strip(s) ==
    LET keep == {i \in 1..Len(s) : ~IsSpace(s[i])}
    IN  IF keep = {} THEN <<>>
        ELSE SubSeq(s, CHOOSE i \in keep : \A j \in keep : i <= j,
                       CHOOSE i \in keep : \A j \in keep : i >= j)

\* str.strip(chars) for a one-character chars
StripChar(s, c) ==
    LET keep == {i \in 1..Len(s) : s[i] # c}
    IN  IF keep = {} THEN <<>>
        ELSE SubSeq(s, CHOOSE i \in keep : \A j \in keep : i <= j,
                       CHOOSE i \in keep : \A j \in keep : i >= j)

\* str.split(): the maximal runs of non-whitespace characters
RECURSIVE Split(_)
Split(s) ==
    LET t == Strip(s)
    IN  IF t = <<>> THEN <<>>
        ELSE LET sp == {i \in 1..Len(t) : IsSpace(t[i])}
                 e  == IF sp = {} THEN Len(t) + 1
                       ELSE CHOOSE i \in sp : \A j \in sp : i <= j
             IN  <<SubSeq(t, 1, e - 1)>> \o Split(Drop(t, e - 1))

\* ' '.join(words)
RECURSIVE Join(_)
Join(words) ==
    IF words = <<>> THEN <<>>
    ELSE IF Len(words) = 1 THEN words[1]
    ELSE words[1] \o <<" ">> \o Join(Tail(words))

\* s <= t in Python's ordering of str (lexicographic by code point)
RECURSIVE StrLeq(_, _)
StrLeq(s, t) ==
    IF s = <<>> THEN TRUE
    ELSE IF t = <<>> THEN FALSE
    ELSE IF s[1] = t[1] THEN StrLeq(Tail(s), Tail(t))
    ELSE Ord(s[1]) < Ord(t[1])

(***************************************************************************)
(* Module-level constants of the script.                                   *)
(***************************************************************************)
LIMITED_AREA == <<"l","i","m","i","t","e","d","_","a","r","e","a">>
PHYSICS == <<"p","h","y","s","i","c","s">>

EXCLUDED_NAMELIST_GROUP == {LIMITED_AREA, PHYSICS}

CONFIG_CALENDAR_TYPE ==
    <<"c","o","n","f","i","g","_","c","a","l","e","n","d","a","r","_","t","y","p","e">>
CONFIG_DO_RESTART ==
    <<"c","o","n","f","i","g","_","d","o","_","r","e","s","t","a","r","t">>
CONFIG_RUN_DURATION ==
    <<"c","o","n","f","i","g","_","r","u","n","_","d","u","r","a","t","i","o","n">>
CONFIG_START_TIME ==
    <<"c","o","n","f","i","g","_","s","t","a","r","t","_","t","i","m","e">>
CONFIG_STOP_TIME ==
    <<"c","o","n","f","i","g","_","s","t","o","p","_","t","i","m","e">>

EXCLUDED_NAMELIST_OPTION ==
    {CONFIG_CALENDAR_TYPE, CONFIG_DO_RESTART, CONFIG_RUN_DURATION,
     CONFIG_START_TIME, CONFIG_STOP_TIME}

INDENT_PER_LEVEL == <<" "," "," "," ">>
NEW_PREFIX == <<"m","p","a","s","_">>
OLD_PREFIX == <<"c","o","n","f","i","g","_">>

(***************************************************************************)
(* transform_name                                                          *)
(***************************************************************************)
\* while name.startswith(prefix): name = name[len(prefix):]
RECURSIVE StripPrefix(_, _)
StripPrefix(name, prefix) ==
    IF StartsWith(name, prefix) THEN StripPrefix(Drop(name, Len(prefix)), prefix)
    ELSE name

\* A transform_name that forgets the loop over the new prefix.
transform_name_keeps_new(name) == NEW_PREFIX \o StripPrefix(name, OLD_PREFIX)

transform_name(name) ==
    NEW_PREFIX \o StripPrefix(StripPrefix(name, OLD_PREFIX), NEW_PREFIX)

(***************************************************************************)
(* The pieces of translate_element_tree.                                   *)
(***************************************************************************)
\* The text of the provenance comment (the two backquotes around the script's
\* path are left out: they cannot be written in a string here).
COMMENT_TEXT ==
    "\n        MPAS dycore\n\n        Notes to developers/maintainers:\n        This file is auto-generated from MPAS registry. Do not edit directly.\n        Instead, use the Python script at src/dynamics/mpas/assets/generate_namelist_definition.py.\n    "

\* ET.Comment(...): the first child of the root
comment == [tag |-> "!comment", text |-> COMMENT_TEXT]

\* namelist_group.attrib['name'].strip().lower() in EXCLUDED_NAMELIST_GROUP,
\* compared without folding the name first
ExcludedGroup_raw(name) == name \in EXCLUDED_NAMELIST_GROUP

\* namelist_group.attrib['name'].strip().lower() in EXCLUDED_NAMELIST_GROUP
ExcludedGroup(name) == Lower(Strip(name)) \in EXCLUDED_NAMELIST_GROUP

\* the option test, compared without folding the name first
ExcludedOption_raw(name) == name \in EXCLUDED_NAMELIST_OPTION

\* namelist_option.attrib['name'].strip().lower() in EXCLUDED_NAMELIST_OPTION
ExcludedOption(name) == Lower(Strip(name)) \in EXCLUDED_NAMELIST_OPTION

\* width given to textwrap.fill
WRAP_WIDTH == 80

\* textwrap.wrap for words shorter than the width: lines are filled greedily,
\* each starting with the indent
RECURSIVE Wrap(_, _, _)
Wrap(words, line, indent) ==
    IF words = <<>> THEN (IF line = indent THEN <<>> ELSE <<line>>)
    ELSE IF line = indent THEN Wrap(Tail(words), line \o words[1], indent)
    ELSE IF Len(line) + 1 + Len(words[1]) <= WRAP_WIDTH
         THEN Wrap(Tail(words), line \o <<" ">> \o words[1], indent)
    ELSE <<line>> \o Wrap(words, indent, indent)

\* '\n'.join(lines)
RECURSIVE JoinLines(_)
JoinLines(lines) ==
    IF lines = <<>> THEN <<>>
    ELSE IF Len(lines) = 1 THEN lines[1]
    ELSE lines[1] \o <<"\n">> \o JoinLines(Tail(lines))

\* textwrap.fill(text, 80, initial_indent=indent, subsequent_indent=indent)
Fill(text, indent) == JoinLines(Wrap(Split(text), indent, indent))

\* The desc element's text; desc_text[0] raises IndexError on an empty string.
DescText(description) ==
    LET desc_text == Join(Split(StripChar(description, ".")))
        indent3   == INDENT_PER_LEVEL \o INDENT_PER_LEVEL \o INDENT_PER_LEVEL
    IN  IF desc_text = <<>>
        THEN [raised |-> "IndexError", text |-> <<>>]
        ELSE [raised |-> None,
              text |-> <<"\n">>
                       \o Fill(<<UpperChar(desc_text[1])>> \o Tail(desc_text), indent3)
                       \o <<"\n">> \o INDENT_PER_LEVEL \o INDENT_PER_LEVEL]

CHAR256 == <<"c","h","a","r","*","2","5","6">>
INTEGER == <<"i","n","t","e","g","e","r">>
LOGICAL == <<"l","o","g","i","c","a","l">>
REAL == <<"r","e","a","l">>
DOT_TRUE == <<".","t","r","u","e",".">>
DOT_FALSE == <<".","f","a","l","s","e",".">>

\* the insertion made one character too early
InsertZeroAfterDot_before(value_text, marker) ==
    LET i == Find(value_text, marker)
    IN  IF i # -1
        THEN SubSeq(value_text, 1, i) \o <<"0">> \o Drop(value_text, i)
        ELSE value_text

\* i = value_text.find(marker); if i != -1: insert '0' at i + 1
InsertZeroAfterDot(value_text, marker) ==
    LET i == Find(value_text, marker)
    IN  IF i # -1
        THEN SubSeq(value_text, 1, i + 1) \o <<"0">> \o Drop(value_text, i + 1)
        ELSE value_text

\* The repair of a real default value (already trimmed and lowercased).
repair(v) ==
    LET v1 == IF StartsWith(v, <<".">>) THEN <<"0">> \o v ELSE v
        v2 == IF EndsWith(v1, <<".">>) THEN v1 \o <<"0">> ELSE v1
        v3 == InsertZeroAfterDot(v2, <<".", "d">>)
    IN  InsertZeroAfterDot(v3, <<".", "e">>)

\* the logical branch with the final else defaulting instead of raising
LogicalValue_lenient(value_text) ==
    IF StartsWith(value_text, <<"t">>) \/ StartsWith(value_text, <<".", "t">>)
    THEN [raised |-> None, value_text |-> DOT_TRUE]
    ELSE [raised |-> None, value_text |-> DOT_FALSE]

\* The value of a logical option.
LogicalValue(value_text) ==
    IF StartsWith(value_text, <<"t">>) \/ StartsWith(value_text, <<".", "t">>)
    THEN [raised |-> None, value_text |-> DOT_TRUE]
    ELSE IF StartsWith(value_text, <<"f">>) \/ StartsWith(value_text, <<".", "f">>)
    THEN [raised |-> None, value_text |-> DOT_FALSE]
    ELSE [raised |-> "ValueError: Invalid value", value_text |-> <<>>]

\* The type element's text and the value element's text.
TypeValue(type, default_value) ==
    LET type_text == Lower(Strip(type))
    IN  IF StartsWith(type_text, <<"c">>)
        THEN [raised |-> None, type_text |-> CHAR256,
              value_text |-> Strip(default_value)]
        ELSE IF StartsWith(type_text, <<"i">>)
        THEN [raised |-> None, type_text |-> INTEGER,
              value_text |-> Lower(Strip(default_value))]
        ELSE IF StartsWith(type_text, <<"l">>)
        THEN LET l == LogicalValue(Lower(Strip(default_value)))
             IN  [raised |-> l.raised, type_text |-> LOGICAL,
                  value_text |-> l.value_text]
        ELSE IF StartsWith(type_text, <<"r">>)
        THEN [raised |-> None, type_text |-> REAL,
              value_text |-> repair(Lower(Strip(default_value)))]
        ELSE [raised |-> "ValueError: Invalid type", type_text |-> <<>>,
              value_text |-> <<>>]

\* The body of the inner loop for an option that is not excluded: the
\* exception raised, if any, and the entry element as far as it was built.
\* The entry is attached to the root when it is created, before its children.
TranslateOption(group, option) ==
    LET d    == DescText(option.description)
        tv   == TypeValue(option.type, option.default_value)
        e1   == [tag      |-> "entry",
                 id       |-> transform_name(Lower(Strip(option.name))),
                 category |-> "mpas"]
        e2   == [tag      |-> "entry",
                 id       |-> e1.id,
                 category |-> "mpas",
                 desc     |-> d.text,
                 group    |-> transform_name(Lower(Strip(group.name)))]
    IN  IF d.raised # None THEN [raised |-> d.raised, entry |-> e1]
        ELSE IF tv.raised # None THEN [raised |-> tv.raised, entry |-> e2]
        ELSE [raised |-> None,
              entry  |-> [tag      |-> "entry",
                          id       |-> e1.id,
                          category |-> "mpas",
                          desc     |-> e2.desc,
                          group    |-> e2.group,
                          type     |-> tv.type_text,
                          value    |-> tv.value_text]]

\* insertion of e into a list sorted by id, after the elements not greater
RECURSIVE Insert(_, _)
Insert(sorted, e) ==
    IF sorted = <<>> THEN <<e>>
    ELSE IF StrLeq(sorted[1].id, e.id) THEN <<sorted[1]>> \o Insert(Tail(sorted), e)
    ELSE <<e>> \o sorted

RECURSIVE Sorted(_)
Sorted(entries) ==
    IF entries = <<>> THEN <<>>
    ELSE Insert(Sorted(SubSeq(entries, 1, Len(entries) - 1)), entries[Len(entries)])

\* the children left in building order
SortEntries_unsorted(children) ==
    <<children[1]>> \o SelectSeq(children, LAMBDA n : n.tag = "entry")

\* entry_id_pg[1:] = sorted(entry_id_pg.iterfind('entry'), key=id): a stable sort
SortEntries(children) ==
    <<children[1]>> \o Sorted(SelectSeq(children, LAMBDA n : n.tag = "entry"))

(***************************************************************************)
(* Inputs: the registries a run may be given.  A registry is the sequence  *)
(* of its nml_record elements (what findall('nml_record') returns), each   *)
(* with a name and the sequence of its nml_option elements.                *)
(***************************************************************************)
GroupNames == {<<"n","h","y","d","_","m","o","d","e","l">>, <<" ","P","h","y","s","i","c","s">>}

ProbeGroupNames == {<<"m","p","a","s","_","t","e","s","t">>, <<"L","I","M","I","T","E","D","_","A","R","E","A">>}

OptionNames == {<<"c","o","n","f","i","g","_","f","o","o">>, <<"F","o","o"," ">>, <<"m","p","a","s","_","b","a","r">>,
                <<" ","C","o","n","f","i","g","_","D","o","_","R","e","s","t","a","r","t">>, <<"d","o","_","r","e","s","t","a","r","t">>}

\* an option that differs from the others of its kind by its name only
NameOption(n) ==
    [name |-> n, type |-> <<"r","e","a","l">>, default_value |-> <<".","5">>,
     description |-> <<"a"," "," ","b",".">>]

Types == {<<" ","R","e","a","l">>, <<"l","o","g","i","c","a","l">>, <<"C","h","a","r","a","c","t","e","r">>, <<"i","n","t","e","g","e","r">>, <<"x","y","z">>, <<>>}

Values == {<<".","5">>, <<"T">>, <<" ",".","F","a","l","s","e",".">>, <<"m","a","y","b","e">>, <<"1",".","D","2">>, <<>>}

Descriptions == {<<"t","i","m","e"," "," ","s","t","e","p",".">>, <<".",".",".">>, <<>>}

\* an option with any combination of type, default value and description
ProbeOptions ==
    {[name |-> <<"c","o","n","f","i","g","_","d","t">>, type |-> t, default_value |-> v, description |-> d] :
        t \in Types, v \in Values, d \in Descriptions}

Min(a, b) == IF a <= b THEN a ELSE b

SeqsOfLen(S, k) == [1..k -> S]

\* registries of exactly n groups holding at most t options in all
RECURSIVE RegistriesOf(_, _)
RegistriesOf(n, t) ==
    IF n = 0 THEN {<<>>}
    ELSE UNION {
        {<<[name |-> g, options |-> os]>> \o r :
            g \in GroupNames,
            os \in SeqsOfLen({NameOption(x) : x \in OptionNames}, k),
            r \in RegistriesOf(n - 1, t - k)} :
        k \in 0..Min(MaxOptions, t)}

NameRegistries == UNION {RegistriesOf(n, MaxTotal) : n \in 0..MaxGroups}

\* one group holding a probe option, alone or next to a well-formed one
ProbeRegistries ==
    LET ok == NameOption(<<"m","p","a","s","_","b","a","r">>)
    IN  UNION {
          {<<[name |-> g, options |-> os]>> :
              os \in {<<p>>, <<ok, p>>, <<p, ok>>}} :
          g \in ProbeGroupNames, p \in ProbeOptions}

Registries == NameRegistries \cup ProbeRegistries

(***************************************************************************)
(* The run of the script: the __main__ block, with the loops of            *)
(* translate_element_tree taken one iteration at a time.                   *)
(***************************************************************************)
NoValue == [set |-> FALSE]
Some(v) == [set |-> TRUE, val |-> v]

fnIdle == arg = <<>> /\ ret = <<>> /\ first = <<>> /\ ncalls = 0

Init ==
    /\ pc = "start"
    /\ reg_xml \in Registries
    /\ reg_xml_element_tree = NoValue
    /\ gi = 0
    /\ oi = 0
    /\ entry_id_pg = <<>>
    /\ nml_xml_element_tree = NoValue
    /\ err = None
    /\ nml_xml = NoValue
    /\ stdout = <<>>
    /\ fnIdle

\* arg = parse_argument(); reg_xml_element_tree = parse_xml(arg.reg_xml)
ParseXml ==
    /\ pc = "start"
    /\ reg_xml_element_tree' = Some(reg_xml)
    /\ pc' = "parsed"
    /\ UNCHANGED <<reg_xml, gi, oi, entry_id_pg, nml_xml_element_tree, err,
                   nml_xml, stdout, fnVars>>

\* translate_element_tree is entered: the root element gets its comment
TranslateEnter ==
    /\ pc = "parsed"
    /\ entry_id_pg' = <<comment>>
    /\ gi' = 1
    /\ oi' = 0
    /\ pc' = "for_group"
    /\ UNCHANGED <<reg_xml, reg_xml_element_tree, nml_xml_element_tree, err,
                   nml_xml, stdout, fnVars>>

groups == reg_xml_element_tree.val

\* an excluded group: continue
GroupSkip ==
    /\ pc = "for_group"
    /\ gi <= Len(groups)
    /\ ExcludedGroup(groups[gi].name)
    /\ gi' = gi + 1
    /\ UNCHANGED <<pc, reg_xml, reg_xml_element_tree, oi, entry_id_pg,
                   nml_xml_element_tree, err, nml_xml, stdout, fnVars>>

\* any other group: its options are iterated
GroupEnter ==
    /\ pc = "for_group"
    /\ gi <= Len(groups)
    /\ ~ExcludedGroup(groups[gi].name)
    /\ oi' = 1
    /\ pc' = "for_option"
    /\ UNCHANGED <<reg_xml, reg_xml_element_tree, gi, entry_id_pg,
                   nml_xml_element_tree, err, nml_xml, stdout, fnVars>>

\* an excluded option: continue
OptionSkip ==
    /\ pc = "for_option"
    /\ oi <= Len(groups[gi].options)
    /\ ExcludedOption(groups[gi].options[oi].name)
    /\ oi' = oi + 1
    /\ UNCHANGED <<pc, reg_xml, reg_xml_element_tree, gi, entry_id_pg,
                   nml_xml_element_tree, err, nml_xml, stdout, fnVars>>

\* any other option: its entry is appended to the root
OptionEntry ==
    /\ pc = "for_option"
    /\ oi <= Len(groups[gi].options)
    /\ ~ExcludedOption(groups[gi].options[oi].name)
    /\ LET t == TranslateOption(groups[gi], groups[gi].options[oi])
       IN  /\ t.raised = None
           /\ entry_id_pg' = Append(entry_id_pg, t.entry)
    /\ oi' = oi + 1
    /\ UNCHANGED <<pc, reg_xml, reg_xml_element_tree, gi,
                   nml_xml_element_tree, err, nml_xml, stdout, fnVars>>

\* ... unless building it raises: nothing catches the exception, the run ends
OptionRaise ==
    /\ pc = "for_option"
    /\ oi <= Len(groups[gi].options)
    /\ ~ExcludedOption(groups[gi].options[oi].name)
    /\ LET t == TranslateOption(groups[gi], groups[gi].options[oi])
       IN  /\ t.raised # None
           /\ err' = t.raised
           /\ entry_id_pg' = Append(entry_id_pg, t.entry)
    /\ pc' = "aborted"
    /\ UNCHANGED <<reg_xml, reg_xml_element_tree, gi, oi,
                   nml_xml_element_tree, nml_xml, stdout, fnVars>>

\* the inner loop is exhausted
GroupExit ==
    /\ pc = "for_option"
    /\ oi > Len(groups[gi].options)
    /\ gi' = gi + 1
    /\ pc' = "for_group"
    /\ UNCHANGED <<reg_xml, reg_xml_element_tree, oi, entry_id_pg,
                   nml_xml_element_tree, err, nml_xml, stdout, fnVars>>

\* the outer loop is exhausted: the entries are sorted and the tree returned
TranslateReturn ==
    /\ pc = "for_group"
    /\ gi > Len(groups)
    /\ entry_id_pg' = SortEntries(entry_id_pg)
    /\ nml_xml_element_tree' = Some(entry_id_pg')
    /\ pc' = "translated"
    /\ UNCHANGED <<reg_xml, reg_xml_element_tree, gi, oi, err, nml_xml,
                   stdout, fnVars>>

\* write_element_tree(arg.nml_xml, nml_xml_element_tree): the tree is
\* serialized and a newline appended to the file
WriteElementTree ==
    /\ pc = "translated"
    /\ nml_xml' = Some([root |-> nml_xml_element_tree.val, newline |-> TRUE])
    /\ pc' = "written"
    /\ UNCHANGED <<reg_xml, reg_xml_element_tree, gi, oi, entry_id_pg,
                   nml_xml_element_tree, err, stdout, fnVars>>

\* print('Generated ' + arg.nml_xml)
PrintGenerated ==
    /\ pc = "written"
    /\ stdout' = Append(stdout, "Generated")
    /\ pc' = "generated"
    /\ UNCHANGED <<reg_xml, reg_xml_element_tree, gi, oi, entry_id_pg,
                   nml_xml_element_tree, err, nml_xml, fnVars>>

\* arg.nml_xsd is None: nothing more to do
NoSchema ==
    /\ pc = "generated"
    /\ pc' = "done"
    /\ UNCHANGED <<reg_xml, reg_xml_element_tree, gi, oi, entry_id_pg,
                   nml_xml_element_tree, err, nml_xml, stdout, fnVars>>

\* arg.nml_xsd is given: the verdict of validate_xml is printed
Validate ==
    /\ pc = "generated"
    /\ \E valid \in BOOLEAN :
          stdout' = Append(stdout, IF valid THEN "Successfully validated"
                                            ELSE "Failed to validate")
    /\ pc' = "done"
    /\ UNCHANGED <<reg_xml, reg_xml_element_tree, gi, oi, entry_id_pg,
                   nml_xml_element_tree, err, nml_xml, fnVars>>

Next ==
    \/ ParseXml
    \/ TranslateEnter
    \/ GroupSkip
    \/ GroupEnter
    \/ OptionSkip
    \/ OptionEntry
    \/ OptionRaise
    \/ GroupExit
    \/ TranslateReturn
    \/ WriteElementTree
    \/ PrintGenerated
    \/ NoSchema
    \/ Validate

Spec == Init /\ [][Next]_vars

(***************************************************************************)
(* transform_name and the real-literal repair on their own: the function   *)
(* is applied to an input, then to its own result.                         *)
(***************************************************************************)
mainIdle ==
    /\ pc = "off"
    /\ reg_xml = <<>>
    /\ reg_xml_element_tree = NoValue
    /\ gi = 0
    /\ oi = 0
    /\ entry_id_pg = <<>>
    /\ nml_xml_element_tree = NoValue
    /\ err = None
    /\ nml_xml = NoValue
    /\ stdout = <<>>

Chunks == {OLD_PREFIX, NEW_PREFIX, <<"c","o","n","f","i","g">>, <<"m","p","a","s">>, <<"_">>, <<"c">>, <<"m">>, <<"x">>}

RECURSIVE Concat(_)
Concat(ss) == IF ss = <<>> THEN <<>> ELSE ss[1] \o Concat(Tail(ss))

NameInputs == {Concat(cs) : cs \in UNION {SeqsOfLen(Chunks, k) : k \in 0..MaxChunks}}

InitName ==
    /\ mainIdle
    /\ arg \in NameInputs
    /\ ret = <<>>
    /\ first = <<>>
    /\ ncalls = 0

CallTransformName ==
    /\ ncalls < 2
    /\ ret' = transform_name(IF ncalls = 0 THEN arg ELSE ret)
    /\ first' = IF ncalls = 0 THEN ret' ELSE first
    /\ ncalls' = ncalls + 1
    /\ UNCHANGED <<arg, mainVars>>

NextName == CallTransformName

SpecName == InitName /\ [][NextName]_vars

RepairChars == {"+", "-", ".", "5", "d", "e"}

RepairInputs == UNION {SeqsOfLen(RepairChars, k) : k \in 0..MaxLen}

InitRepair ==
    /\ mainIdle
    /\ arg \in RepairInputs
    /\ ret = <<>>
    /\ first = <<>>
    /\ ncalls = 0

CallRepair ==
    /\ ncalls < 2
    /\ ret' = repair(IF ncalls = 0 THEN arg ELSE ret)
    /\ first' = IF ncalls = 0 THEN ret' ELSE first
    /\ ncalls' = ncalls + 1
    /\ UNCHANGED <<arg, mainVars>>

NextRepair == CallRepair

SpecRepair == InitRepair /\ [][NextRepair]_vars

(***************************************************************************)
(* What the claims are stated with.  These definitions read the input      *)
(* registry on their own, apart from the operators the run is built from.  *)
(***************************************************************************)
\* a name trimmed and lowercased
Norm(s) == Lower(Strip(s))

ClaimExcludedGroups == {<<"l","i","m","i","t","e","d","_","a","r","e","a">>, <<"p","h","y","s","i","c","s">>}

ClaimExcludedOptions ==
    {<<"c","o","n","f","i","g","_","c","a","l","e","n","d","a","r","_","t","y","p","e">>, <<"c","o","n","f","i","g","_","d","o","_","r","e","s","t","a","r","t">>, <<"c","o","n","f","i","g","_","r","u","n","_","d","u","r","a","t","i","o","n">>,
     <<"c","o","n","f","i","g","_","s","t","a","r","t","_","t","i","m","e">>, <<"c","o","n","f","i","g","_","s","t","o","p","_","t","i","m","e">>}

\* the options of a registry that no exclusion covers, in source order, each
\* with the name of its group
RECURSIVE Survivors(_)
Survivors(reg) ==
    IF reg = <<>> THEN <<>>
    ELSE LET g    == reg[1]
             kept == SelectSeq(g.options,
                               LAMBDA o : Norm(o.name) \notin ClaimExcludedOptions)
         IN  (IF Norm(g.name) \in ClaimExcludedGroups THEN <<>>
              ELSE [i \in 1..Len(kept) |-> [group |-> g.name, option |-> kept[i]]])
             \o Survivors(Tail(reg))

\* every option of a registry, in source order
RECURSIVE AllOptions(_)
AllOptions(reg) ==
    IF reg = <<>> THEN <<>> ELSE reg[1].options \o AllOptions(Tail(reg))

\* the id the entry of a surviving option gets
IdOf(s) == transform_name(Norm(s.option.name))

\* s <= t lexicographically, by the first position where they differ
LexLeq(s, t) ==
    LET n == Min(Len(s), Len(t))
        d == {i \in 1..n : s[i] # t[i]}
    IN  IF d = {} THEN Len(s) <= Len(t)
        ELSE LET k == CHOOSE i \in d : \A j \in d : i <= j
             IN  Ord(s[k]) < Ord(t[k])

Returned == nml_xml_element_tree.set
Root == nml_xml_element_tree.val
Entries == 2..Len(Root)

\* the first character of the trimmed, lowercased type string, "" if none
TypeChar(o) == IF Norm(o.type) = <<>> THEN "" ELSE Norm(o.type)[1]

BadType(o) == TypeChar(o) \notin {"c", "i", "l", "r"}

BadLogical(o) ==
    /\ TypeChar(o) = "l"
    /\ \A p \in {<<"t">>, <<".","t">>, <<"f">>, <<".","f">>} : ~StartsWith(Norm(o.default_value), p)

Keyword(c) ==
    IF c = "c" THEN <<"c","h","a","r","*","2","5","6">>
    ELSE IF c = "i" THEN <<"i","n","t","e","g","e","r">>
    ELSE IF c = "l" THEN <<"l","o","g","i","c","a","l">>
    ELSE <<"r","e","a","l">>

InputFormatErrors == {"ValueError: Invalid type", "ValueError: Invalid value"}

(***************************************************************************)
(* The claims about a run (specification Spec).                            *)
(***************************************************************************)
\* C1: the returned root has the provenance comment first and only entries
\* after it; the entry ids are non-decreasing in lexicographic order; the
\* entries are as many as the surviving options and carry the same ids, each
\* as often as it occurs among the surviving options.
C1_SortedAfterComment ==
    Returned =>
        LET surv == Survivors(reg_xml)
        IN  /\ Len(Root) >= 1
            /\ Root[1] = comment
            /\ \A i \in Entries : Root[i].tag = "entry"
            /\ \A i \in Entries : i < Len(Root) => LexLeq(Root[i].id, Root[i + 1].id)
            /\ Len(Root) - 1 = Len(surv)
            /\ \A i \in Entries :
                  Cardinality({j \in Entries : Root[j].id = Root[i].id})
                    = Cardinality({k \in DOMAIN surv : IdOf(surv[k]) = Root[i].id})

\* C1 witness: a tree was returned whose entries were built in an order that
\* is not the sorted one.
C1_Witness ==
    /\ Returned
    /\ Len(Root) >= 3
    /\ LET surv == Survivors(reg_xml)
       IN  \E i, j \in DOMAIN surv : i < j /\ ~LexLeq(IdOf(surv[i]), IdOf(surv[j]))

\* C2: every entry of the output comes from an option of its own whose
\* trimmed, lowercased name is outside the option exclusion set and whose
\* group's trimmed, lowercased name is outside the group exclusion set: the
\* entries with a given id and group are never more than the surviving
\* options that give that id and group.
C2_FilterComplete ==
    Returned =>
        LET surv == Survivors(reg_xml)
        IN  \A i \in Entries :
              Cardinality({j \in Entries : /\ Root[j].id = Root[i].id
                                           /\ Root[j].group = Root[i].group})
                <= Cardinality({k \in DOMAIN surv :
                                  /\ IdOf(surv[k]) = Root[i].id
                                  /\ transform_name(Norm(surv[k].group)) = Root[i].group})

\* C2 witness: a tree with an entry was returned for a registry that holds
\* config_do_restart, in another letter case, in a group that is kept.
C2_Witness ==
    /\ Returned
    /\ Len(Root) >= 2
    /\ \E g \in DOMAIN reg_xml :
          /\ Norm(reg_xml[g].name) \notin ClaimExcludedGroups
          /\ \E o \in DOMAIN reg_xml[g].options :
                /\ Norm(reg_xml[g].options[o].name) = <<"c","o","n","f","i","g","_","d","o","_","r","e","s","t","a","r","t">>
                /\ reg_xml[g].options[o].name # <<"c","o","n","f","i","g","_","d","o","_","r","e","s","t","a","r","t">>

IdsDistinct == \A i, j \in Entries : i # j => Root[i].id # Root[j].id

\* C3 as stated: when the option names of the registry are pairwise distinct
\* as raw strings, the entry ids of the output are pairwise distinct.
C3_RawDistinctGivesUniqueIds ==
    LET opts == AllOptions(reg_xml)
    IN  (Returned /\ \A i, j \in DOMAIN opts : i # j => opts[i].name # opts[j].name)
            => IdsDistinct

\* C3 amended: when the names of the surviving options are pairwise distinct
\* after trimming, lowercasing and transform_name, the entry ids of the
\* output are pairwise distinct.
C3_TransformedDistinctGivesUniqueIds ==
    LET surv == Survivors(reg_xml)
    IN  (Returned /\ \A i, j \in DOMAIN surv : i # j => IdOf(surv[i]) # IdOf(surv[j]))
            => IdsDistinct

\* C3 witness: a tree with two entries was returned for a registry whose
\* surviving options have distinct transformed names.
C3_Witness ==
    LET surv == Survivors(reg_xml)
    IN  /\ Returned
        /\ Len(Root) >= 3
        /\ \A i, j \in DOMAIN surv : i # j => IdOf(surv[i]) # IdOf(surv[j])

\* C6: once translation has ended, if a surviving option has a type whose
\* first character is none of c, i, l, r, the input-format error was raised
\* and no document returned; otherwise every entry of a returned document has
\* the type keyword that the first character of its option's type selects.
C6_TypeTotality ==
    LET surv == Survivors(reg_xml)
    IN  pc \in {"translated", "written", "generated", "done", "aborted"} =>
          IF \E k \in DOMAIN surv : BadType(surv[k].option)
          THEN pc = "aborted" /\ err \in InputFormatErrors /\ ~Returned
          ELSE Returned =>
                 \A i \in Entries :
                   Cardinality({j \in Entries : /\ Root[j].id = Root[i].id
                                                /\ Root[j].type = Root[i].type})
                     = Cardinality({k \in DOMAIN surv :
                                      /\ IdOf(surv[k]) = Root[i].id
                                      /\ Keyword(TypeChar(surv[k].option)) = Root[i].type})

\* C7: when a surviving option has an unrecognized type or, being logical,
\* an unrecognized default value, the run never gets past translation: the
\* output file is not written and nothing is printed; and the output file,
\* once written, holds the returned tree, complete and sorted.
C7_NoPartialOutput ==
    LET surv == Survivors(reg_xml)
    IN  /\ (\E k \in DOMAIN surv : BadType(surv[k].option) \/ BadLogical(surv[k].option))
              => /\ pc \in {"start", "parsed", "for_group", "for_option", "aborted"}
                 /\ ~nml_xml.set
                 /\ stdout = <<>>
        /\ nml_xml.set
              => /\ Returned
                 /\ pc \in {"written", "generated", "done"}
                 /\ nml_xml.val.root = Root
                 /\ Len(Root) - 1 = Len(surv)
                 /\ \A i \in Entries :
                       i < Len(Root) => LexLeq(Root[i].id, Root[i + 1].id)

\* C7 witness: the run was aborted by an unrecognized logical value after a
\* whole entry had been built in memory, and the output file is untouched.
C7_Witness ==
    /\ pc = "aborted"
    /\ err = "ValueError: Invalid value"
    /\ Len(entry_id_pg) >= 3
    /\ ~nml_xml.set

\* C8: building the desc text never raises, so a run that fails in
\* translation fails with one of the two input-format errors.
C8_DescNeverRaises == pc = "aborted" => err \in InputFormatErrors

(***************************************************************************)
(* The claims about transform_name (specification SpecName).               *)
(***************************************************************************)
\* C4: transform_name(s) is 'mpas_' followed by a remainder that starts with
\* neither 'mpas_' nor 'config_'.
C4_OnePrefixNoRemnant ==
    ncalls >= 1 =>
        /\ StartsWith(first, <<"m","p","a","s","_">>)
        /\ ~StartsWith(Drop(first, 5), <<"m","p","a","s","_">>)
        /\ ~StartsWith(Drop(first, 5), <<"c","o","n","f","i","g","_">>)

\* C5: transform_name(transform_name(s)) = transform_name(s).
C5_Idempotent == ncalls = 2 => ret = first

\* C5 witness: the transform was applied twice to a name with stacked
\* prefixes, which the first application changed.
C5_Witness ==
    /\ ncalls = 2
    /\ StartsWith(arg, <<"c","o","n","f","i","g","_","m","p","a","s","_">>)
    /\ first # arg

(***************************************************************************)
(* The claims about the real-literal repair (specification SpecRepair).    *)
(***************************************************************************)
\* the number of places where p occurs in s
Occurrences(s, p) ==
    Cardinality({i \in 0..(Len(s) - Len(p)) : SubSeq(s, i + 1, i + Len(p)) = p})

IsDigit(c) == c \in Range(DIGITS)

AllDigits(s) == \A i \in DOMAIN s : IsDigit(s[i])

\* [sign] digits+
SignedDigits(s) ==
    LET u == IF s # <<>> /\ s[1] \in {"+", "-"} THEN Tail(s) ELSE s
    IN  u # <<>> /\ AllDigits(u)

\* digits* ['.' digits*] with at least one digit
Mantissa(s) ==
    LET dots == {i \in DOMAIN s : s[i] = "."}
    IN  /\ Cardinality(dots) <= 1
        /\ \A i \in DOMAIN s : s[i] = "." \/ IsDigit(s[i])
        /\ \E i \in DOMAIN s : IsDigit(s[i])

\* [sign] digits* ['.' digits*] [('d'|'e') [sign] digits+], a mantissa digit
WellFormedReal(s) ==
    LET u  == IF s # <<>> /\ s[1] \in {"+", "-"} THEN Tail(s) ELSE s
        ex == {i \in DOMAIN u : u[i] \in {"d", "e"}}
    IN  IF ex = {} THEN Mantissa(u)
        ELSE LET k == CHOOSE i \in ex : \A j \in ex : i <= j
             IN  Mantissa(SubSeq(u, 1, k - 1)) /\ SignedDigits(Drop(u, k))

\* C9 as stated: repair(repair(v)) = repair(v) for every string v.
C9_RepairIdempotent == ncalls = 2 => ret = first

\* C9 amended: repair(repair(v)) = repair(v) for every string v in which
\* '.d' occurs at most once and '.e' occurs at most once.
C9_RepairIdempotentOneMarker ==
    (/\ ncalls = 2
     /\ Occurrences(arg, <<".","d">>) <= 1
     /\ Occurrences(arg, <<".","e">>) <= 1) => ret = first

\* C9 witness: the repair was applied twice to a value with one '.d', which
\* the first application changed.
C9_Witness ==
    /\ ncalls = 2
    /\ Occurrences(arg, <<".","d">>) = 1
    /\ Occurrences(arg, <<".","e">>) <= 1
    /\ first # arg

\* C10: in the repair of a well-formed real literal every '.' has a digit
\* right before it and a digit right after it.
C10_DotsBetweenDigits ==
    (ncalls >= 1 /\ WellFormedReal(arg)) =>
        \A i \in DOMAIN first :
            first[i] = "." => /\ i > 1 /\ IsDigit(first[i - 1])
                              /\ i < Len(first) /\ IsDigit(first[i + 1])

=============================================================================
